---------------------------- MODULE Spec2Model ----------------------------
(***************************************************************************)
(* TPLinkClient (src/tplink.py): the session layer of the TP-Link Archer   *)
(* API client.  One client object, driven by one caller; every HTTP        *)
(* exchange is a step whose input is the body the router answers with.     *)
(*                                                                         *)
(* How Python values are written here:                                     *)
(*   - str: a TLA+ string; a str that embeds an RSA ciphertext (which is   *)
(*     random and has no literal) is a Text, a sequence of pieces          *)
(*   - None: the string "None" for the str-valued fields (it is also what  *)
(*     format() prints), the empty tuple for the tuple-valued fields       *)
(*   - dict: a record, or a sequence of [attr, value] when order matters   *)
(*   - an exception or a return value of a call: an outcome record         *)
(*   - RSA and AES ciphertexts: records naming key and plaintext           *)
(***************************************************************************)
EXTENDS Integers, Sequences, FiniteSets, TLC

VARIABLES
    token,          \* self.token
    rsa_key_pw,     \* self.rsa_key_pw
    rsa_key_auth,   \* self.rsa_key_auth
    md5_hash_pw,    \* self.md5_hash_pw
    aes_key,        \* self.aes_key (the attribute does not exist before line 79)
    pc,             \* where the caller's current API call stands
    call,           \* the API call in progress or last completed, with its arguments
    encrypted_pw,   \* connect()'s local encrypted_pw
    unblock,        \* unblock_device()'s locals after its scan
    posted,         \* the exchanges self.req.post made during `call`, in order
    result,         \* how `call` ended: a return value or an exception
    last_connect,   \* history: the most recent connect(), its password and how it ended
    sign_io,        \* the signing string handed to the chunk loop and what it produced
    key_io,         \* the clock reading and the draws of a __gen_aes_key(), and what it returned
    aes_io,         \* a text sent through the request path and back through the response path
    router          \* the black list the router holds, where the model follows it

vars == <<token, rsa_key_pw, rsa_key_auth, md5_hash_pw, aes_key, pc, call,
          encrypted_pw, unblock, posted, result, last_connect, sign_io, key_io, aes_io, router>>

fields == <<token, rsa_key_pw, rsa_key_auth, md5_hash_pw, aes_key>>

-----------------------------------------------------------------------------
(* Python values *)

None == "None"
NoneT == <<>>

Ret(v) == [kind |-> "return", value |-> v]
Raise(exc, arg) == [kind |-> "raise", exc |-> exc, arg |-> arg]
Pending == [kind |-> "pending"]

Min(a, b) == IF a < b THEN a ELSE b

\* s[lo:hi] of a str, 0-based and clamped as Python slices are
Slice(s, lo, hi) == SubSeq(s, lo + 1, Min(hi, Len(s)))

Digits == "0123456789"

RECURSIVE str(_)
\* str(n) of a non-negative int
str(n) ==
    IF n < 10 THEN Slice(Digits, n, n + 1)
    ELSE str(n \div 10) \o Slice(Digits, n % 10, (n % 10) + 1)

\* Text: a str given as a sequence of pieces
S(s) == [k |-> "s", v |-> s]
HexPiece(c) == [k |-> "hex", v |-> c]

PieceLen(p) == IF p.k = "s" THEN Len(p.v) ELSE p.v.hexlen

RECURSIVE TextLen(_)
TextLen(t) == IF t = <<>> THEN 0 ELSE PieceLen(Head(t)) + TextLen(Tail(t))

\* A response text: one that json.loads parses to v, or one it rejects
JsonDoc(v) == [kind |-> "json", value |-> v]
PlainText(s) == [kind |-> "text", value |-> s]

json_loads(doc) ==
    IF doc.kind = "json" THEN Ret(doc.value) ELSE Raise("JSONDecodeError", doc.kind)

\* What __request returns: a parsed JSON object, or a str
PyDict(d) == [t |-> "dict", d |-> d]
PyStr(doc) == [t |-> "str", s |-> doc]

\* key in response: dict membership, and for a str the substring test
Contains(response, key) ==
    IF response.t = "dict" THEN key \in DOMAIN response.d
    ELSE response.s.kind = "json" /\ key \in DOMAIN response.s.value

-----------------------------------------------------------------------------
(* Bounds and inputs *)

Passwords == {"password", "hunter2"}

Tokens == {"94640fd8887fb5750d6a426345581b87", "0f1e2d3c4b5a69788796a5b4c3d2e1f0"}

Seqs == {12345, 999999990}

\* round(time.time() * 1000) as text, and the draws of random.randint
Timestamps == {"1762425600000"}
Rands == {100000000, 999999999}

\* the random padding of one PKCS#1 v1.5 encryption of the password
MaxNonce == 2
Nonces == 1..MaxNonce

\* A hex string of the router, by what the code reads of it: its length,
\* whether int(.., 16) parses it, and the bit length of the number it denotes
HexStr(len, bits) == [len |-> len, hex |-> TRUE, bits |-> bits]
NonHexStr(len) == [len |-> len, hex |-> FALSE, bits |-> 0]

Exponent == HexStr(6, 17)

GoodPwKey == <<HexStr(256, 1024), Exponent>>
GoodAuthKey == <<HexStr(128, 512), Exponent>>

PwKeys ==
    { GoodPwKey,
      <<HexStr(256, 1016), Exponent>>,       \* modulus with a leading zero byte
      <<NonHexStr(256), Exponent>>,
      <<HexStr(254, 1016), Exponent>>,
      <<HexStr(256, 1024), HexStr(5, 17)>> }

AuthKeys ==
    { GoodAuthKey,
      <<HexStr(128, 504), Exponent>>,        \* modulus with a leading zero byte
      <<NonHexStr(128), Exponent>>,
      <<HexStr(126, 504), Exponent>>,
      <<HexStr(128, 512), HexStr(5, 17)>> }

EmptyBody == [kind |-> "empty"]

KeysBodies ==
    {EmptyBody}
    \cup {JsonDoc([success |-> TRUE, data |-> [password |-> k]]) : k \in PwKeys}
    \cup {JsonDoc([success |-> FALSE, data |-> [password |-> GoodPwKey]])}

AuthBodies ==
    {EmptyBody}
    \cup {JsonDoc([success |-> TRUE, data |-> [key |-> GoodAuthKey, seq |-> s]]) : s \in Seqs}
    \cup {JsonDoc([success |-> TRUE, data |-> [key |-> k, seq |-> 12345]]) : k \in AuthKeys}
    \cup {JsonDoc([success |-> FALSE, data |-> [key |-> GoodAuthKey, seq |-> 12345]])}

LoginReplies ==
    {[success |-> TRUE, data |-> [stok |-> t]] : t \in Tokens}
    \cup { [success |-> FALSE, errorcode |-> "login failed",
            data |-> [failureCount |-> 1, errorcode |-> "-5002", attemptsAllowed |-> 9]],
           [success |-> FALSE, errorcode |-> "exceeded max attempts",
            data |-> [failureCount |-> 10, attemptsAllowed |-> 0]],
           [success |-> FALSE, errorcode |-> "user conflict", data |-> <<>>],
           [success |-> FALSE, errorcode |-> "internal error", data |-> <<>>],
           [success |-> FALSE, data |-> <<>>],
           [data |-> [stok |-> "94640fd8887fb5750d6a426345581b87"]] }

LogoutReplies == {[success |-> TRUE], [success |-> FALSE], [errorcode |-> "timeout"]}

Macs == {"7D-24-92-59-70-E8", "AA-BB-CC-DD-EE-FF"}

DeviceReplies == {[success |-> TRUE, data |-> [enable |-> "on"]]}

BlackLists ==
    { <<>>,
      <<[mac |-> "7D-24-92-59-70-E8", key |-> "key-0"]>>,
      <<[mac |-> "AA-BB-CC-DD-EE-FF"], [mac |-> "7D-24-92-59-70-E8"]>>,
      <<[mac |-> "AA-BB-CC-DD-EE-FF", key |-> "key-0"],
        [mac |-> "AA-BB-CC-DD-EE-FF", key |-> "key-1"]>> }

BlackListReplies == {[success |-> TRUE, data |-> l] : l \in BlackLists}

-----------------------------------------------------------------------------
(* MD5, RSA, AES, base64: the library calls, by what the client reads of them *)

\* MD5.new().update(s).hexdigest(), on the strings connect() hashes
MD5_hexdigest(s) ==
    CASE s = "adminpassword" -> "e3274be5c857fb42ab72d786e281b4b8"
      [] s = "adminhunter2" -> "b7e0c81efd24af5fd698e10fe115c291"
      [] OTHER -> "d41d8cd98f00b204e9800998ecf8427e"

DigestLen == 32

\* __hash_pw(arg1, arg2) with arg2 given
hash_pw(arg1, arg2) ==
    LET hexdigest == MD5_hexdigest(arg1 \o arg2)
    IN  IF Len(hexdigest) = DigestLen THEN Ret(hexdigest) ELSE Raise("AssertionError", "hash_pw")

\* __make_rsa_pub_key(key): int('0x' + .., 16) raises ValueError on a non-hex string
make_rsa_pub_key(key) ==
    IF key[1].hex /\ key[2].hex THEN Ret([n |-> key[1], e |-> key[2]])
    ELSE Raise("ValueError", "int")

\* the size of the modulus in bytes (what PKCS1_v1_5 calls k)
KeyByteLength(pub_key) == (pub_key.n.bits + 7) \div 8

\* len(hex(pub_key.n)) - 2
HexDigitsOfN(pub_key) == (pub_key.n.bits + 3) \div 4

\* PKCS1_v1_5.new(pub_key).encrypt(message), hexlified: ValueError when the message
\* is longer than k - 11; r is the random padding drawn
RsaEncryptHex(pub_key, message, r) ==
    IF Len(message) > KeyByteLength(pub_key) - 11
    THEN Raise("ValueError", "Plaintext is too long.")
    ELSE Ret([n |-> pub_key.n, e |-> pub_key.e, pt |-> message, r |-> r,
              hexlen |-> 2 * KeyByteLength(pub_key)])

PwHexLen == 256

\* __encrypt_pw(password)
encrypt_pw(password, r) ==
    LET pub_key == make_rsa_pub_key(rsa_key_pw)
        as_string == RsaEncryptHex(pub_key.value, password, r)
    IN  IF pub_key.kind = "raise" THEN pub_key
        ELSE IF as_string.kind = "raise" THEN as_string
        ELSE IF as_string.value.hexlen # PwHexLen THEN Raise("AssertionError", "encrypt_pw")
        ELSE IF as_string.value.hexlen # HexDigitsOfN(pub_key.value)
             THEN Raise("AssertionError", "encrypt_pw")
        ELSE as_string

KEY_LEN == 16
IV_LEN == 16

\* mutant: the asserts of lines 314-315 lost
gen_aes_key_unchecked(ts, r1, r2) ==
    Ret(<<Slice(ts \o str(r1), 0, KEY_LEN), Slice(ts \o str(r2), 0, IV_LEN)>>)

\* mutant: one draw feeds both the key and the iv
gen_aes_key_one_draw(ts, r1, r2) ==
    LET key == Slice(ts \o str(r1), 0, KEY_LEN)
        iv == Slice(ts \o str(r1), 0, IV_LEN)
    IN  IF Len(key) # 16 \/ Len(iv) # 16 THEN Raise("AssertionError", "gen_aes_key")
        ELSE Ret(<<key, iv>>)

\* __gen_aes_key(), with the clock reading and the two random draws as inputs
gen_aes_key(ts, r1, r2) ==
    LET key == Slice(ts \o str(r1), 0, KEY_LEN)
        iv == Slice(ts \o str(r2), 0, IV_LEN)
    IN  IF Len(key) # 16 \/ Len(iv) # 16 THEN Raise("AssertionError", "gen_aes_key")
        ELSE Ret(<<key, iv>>)

BlockSize == 16

\* pad(data, 16, 'pkcs7'): 1..16 bytes are added, each holding their number
pad(data_str) == [body |-> data_str, pad |-> BlockSize - (TextLen(data_str) % BlockSize)]

PaddedLen(padded) == TextLen(padded.body) + padded.pad

\* __gen_aes_cipher(aes_key).encrypt(data_padded): CBC keeps the length
AesEncrypt(k, data_padded) == [aes |-> k, pt |-> data_padded, len |-> PaddedLen(data_padded)]

\* b64encode(..).decode('utf8'): 4 characters for every 3 bytes, rounded up
b64encode(bytes) == [b64 |-> bytes, len |-> 4 * ((bytes.len + 2) \div 3)]

\* What the router encrypts: the text, padded; only the client's key opens it
ServerCipher(k, doc) == [b64 |-> [aes |-> k, pt |-> [body |-> doc]]]

\* b64decode, decrypt with self.aes_key, unpad, decode
decrypt_unpad(data) ==
    IF data.b64.aes = aes_key THEN Ret(data.b64.pt.body)
    ELSE Raise("ValueError", "Padding is incorrect.")

-----------------------------------------------------------------------------
(* __get_signature and __request *)

ChunkLen == 53

\* mutant: the length of the body is not added to the sequence
sign_data_of_no_len(body_data_len, is_login) ==
    IF is_login
    THEN "k=" \o aes_key[1] \o "&i=" \o aes_key[2]
         \o "&h=" \o md5_hash_pw \o "&s=" \o str(rsa_key_auth[3])
    ELSE "h=" \o md5_hash_pw \o "&s=" \o str(rsa_key_auth[3])

\* the signing string, lines 335-343
sign_data_of(body_data_len, is_login) ==
    IF is_login
    THEN "k=" \o aes_key[1] \o "&i=" \o aes_key[2]
         \o "&h=" \o md5_hash_pw \o "&s=" \o str(rsa_key_auth[3] + body_data_len)
    ELSE "h=" \o md5_hash_pw \o "&s=" \o str(rsa_key_auth[3] + body_data_len)

RECURSIVE sign_loop_overlap(_, _, _, _)
\* mutant: pos advances by one less than the chunk taken
sign_loop_overlap(sign_data, pos, pub_key, signature) ==
    IF pos < Len(sign_data)
    THEN LET enc == RsaEncryptHex(pub_key, Slice(sign_data, pos, pos + ChunkLen), 0)
         IN  IF enc.kind = "raise" THEN enc
             ELSE sign_loop_overlap(sign_data, pos + ChunkLen - 1, pub_key,
                                    Append(signature, enc.value))
    ELSE Ret(signature)

RECURSIVE sign_loop(_, _, _, _)
\* the while loop of lines 351-355: the signature is the chunks' hex ciphertexts,
\* appended in order (the padding randomness of a chunk is not followed)
sign_loop(sign_data, pos, pub_key, signature) ==
    IF pos < Len(sign_data)
    THEN LET enc == RsaEncryptHex(pub_key, Slice(sign_data, pos, pos + ChunkLen), 0)
         IN  IF enc.kind = "raise" THEN enc
             ELSE sign_loop(sign_data, pos + ChunkLen, pub_key, Append(signature, enc.value))
    ELSE Ret(signature)

\* lines 345-357: sign_data encrypted with the auth key
sign(sign_data, key) ==
    LET pub_key == make_rsa_pub_key(key)
    IN  IF pub_key.kind = "raise" THEN pub_key
        ELSE sign_loop(sign_data, 0, pub_key.value, <<>>)

\* __get_signature(body_data_len, is_login)
get_signature(body_data_len, is_login) ==
    IF rsa_key_auth = NoneT THEN Raise("TypeError", "rsa_key_auth")
    ELSE sign(sign_data_of(body_data_len, is_login), rsa_key_auth)

RECURSIVE format_body_to_encrypt(_)
\* __format_body_to_encrypt(data): attr=value joined with &, in the dict's order
format_body_to_encrypt(data) ==
    IF data = <<>> THEN <<>>
    ELSE LET first == <<S(data[1].attr), S("="), data[1].value>>
         IN  IF Len(data) = 1 THEN first
             ELSE first \o <<S("&")>> \o format_body_to_encrypt(Tail(data))

\* mutant: the dict built with data first
form_data_of_swapped(signature, encrypted_data) ==
    << [attr |-> "data", value |-> encrypted_data], [attr |-> "sign", value |-> signature] >>

\* the dict of lines 213-216, in insertion order
form_data_of(signature, encrypted_data) ==
    << [attr |-> "sign", value |-> signature], [attr |-> "data", value |-> encrypted_data] >>

\* lines 196-218: the body to post, or the exception that prevents the post
request_body(data, encrypt, is_login) ==
    IF ~encrypt THEN Ret(data)
    ELSE IF aes_key = NoneT THEN Raise("AttributeError", "aes_key")
    ELSE LET data_str == format_body_to_encrypt(data)
             encrypted_data == b64encode(AesEncrypt(aes_key, pad(data_str)))
             signature == get_signature(encrypted_data.len, is_login)
         IN  IF signature.kind = "raise" THEN signature
             ELSE Ret(form_data_of(signature.value, encrypted_data))

\* the except branch, lines 247-257: r.text taken as bare base64; the text that
\* comes out is returned as it is.  Of a text that is not the base64 of a
\* ciphertext, b64decode drops the foreign characters and either it or decrypt
\* or unpad raises (binascii.Error is a ValueError)
fallback_response(text) ==
    IF text.kind # "b64" THEN Raise("ValueError", "b64decode, decrypt, unpad of r.text")
    ELSE LET j == decrypt_unpad(text.value)
         IN  IF j.kind = "raise" THEN j ELSE Ret(PyStr(j.value))

\* lines 226-260: what __request makes of the body r.text
read_response(text, encrypt) ==
    IF text.kind = "empty" THEN Raise("AssertionError", "r.text")
    ELSE IF ~encrypt
    THEN LET parsed == json_loads(text)
         IN  IF parsed.kind = "raise" THEN parsed ELSE Ret(PyDict(parsed.value))
    ELSE LET raw_response_json == json_loads(text)
         IN  IF raw_response_json.kind = "raise" THEN fallback_response(text)
             ELSE IF "data" \notin DOMAIN raw_response_json.value
             THEN Raise("AssertionError", "data")
             ELSE LET j == decrypt_unpad(raw_response_json.value.data)
                      parsed == json_loads(j.value)
                  IN  IF j.kind = "raise" THEN j
                      ELSE IF parsed.kind = "raise" THEN fallback_response(text)
                      ELSE Ret(PyDict(parsed.value))

\* __request(url, data, encrypt, is_login), answered with the body text:
\* the exchange it posts (none when it raises before the post) and its outcome
request(url, data, encrypt, is_login, text) ==
    LET form_data == request_body(data, encrypt, is_login)
    IN  IF form_data.kind = "raise" THEN [posted |-> <<>>, out |-> form_data]
        ELSE [posted |-> << [url |-> url, body |-> form_data.value, text |-> text] >>,
              out |-> read_response(text, encrypt)]

\* get_url(endpoint, form); the host is fixed at construction
get_url(endpoint, form) ==
    [stok |-> IF token # None THEN token ELSE "", endpoint |-> endpoint, form |-> form]

\* The bodies the router may answer an encrypted request with: nothing, a JSON
\* envelope around the encrypted reply, the bare encrypted text, JSON without data
Envelope(doc) == JsonDoc([data |-> ServerCipher(aes_key, doc)])
Bare(doc) == [kind |-> "b64", value |-> ServerCipher(aes_key, doc)]

DeviceBodies(replies) ==
    {Bare(PlainText("ok"))} \cup {Envelope(JsonDoc(v)) : v \in replies}

EncryptedBodies(replies) ==
    {EmptyBody, Bare(PlainText("ok")), JsonDoc([errorcode |-> "forbidden"]),
     Envelope(PlainText("ok"))}
    \cup {Envelope(JsonDoc(v)) : v \in replies}

-----------------------------------------------------------------------------
(* The requests of the handshake *)

read_data == << [attr |-> "operation", value |-> S("read")] >>

\* __req_rsa_key_password, lines 370-376, on the outcome of its __request
rsa_key_password_of(out) ==
    IF out.kind = "raise" THEN out
    ELSE LET response == out.value.d
             pw_pub_key == response.data.password
         IN  IF response.success # TRUE THEN Raise("AssertionError", "success")
             ELSE IF pw_pub_key[1].len # 256 THEN Raise("AssertionError", "n")
             ELSE IF pw_pub_key[2].len # 6 THEN Raise("AssertionError", "e")
             ELSE Ret(<<pw_pub_key[1], pw_pub_key[2]>>)

\* mutant: the asserts of lines 389-393 lost
rsa_key_auth_of_unchecked(out) ==
    IF out.kind = "raise" THEN out
    ELSE LET response == out.value.d
             auth_pub_key == response.data.key
         IN  Ret(<<auth_pub_key[1], auth_pub_key[2], response.data.seq>>)

\* __req_rsa_key_auth, lines 389-395, on the outcome of its __request
rsa_key_auth_of(out) ==
    IF out.kind = "raise" THEN out
    ELSE LET response == out.value.d
             auth_pub_key == response.data.key
         IN  IF response.success # TRUE THEN Raise("AssertionError", "success")
             ELSE IF auth_pub_key[1].len # 128 THEN Raise("AssertionError", "n")
             ELSE IF auth_pub_key[2].len # 6 THEN Raise("AssertionError", "e")
             ELSE Ret(<<auth_pub_key[1], auth_pub_key[2], response.data.seq>>)

\* mutant: line 409 lost, confirm is never added
login_data_no_confirm(enc_pw, force_login) ==
    << [attr |-> "operation", value |-> S("login")],
       [attr |-> "password", value |-> HexPiece(enc_pw)] >>

\* the form of __req_login, lines 403-409
login_data(enc_pw, force_login) ==
    << [attr |-> "operation", value |-> S("login")],
       [attr |-> "password", value |-> HexPiece(enc_pw)] >>
    \o (IF force_login THEN << [attr |-> "confirm", value |-> S("true")] >> ELSE <<>>)

\* mutant: the branch of line 424 lost, 'exceeded max attempts' falls to the else
login_outcome_no_max(out) ==
    IF out.kind = "raise" THEN out
    ELSE LET response == out.value
             d == response.d
         IN  IF ~Contains(response, "success") THEN Raise("AssertionError", "success")
             ELSE IF response.t = "str" THEN Raise("TypeError", "str indices")
             ELSE IF d.success = FALSE
             THEN IF "errorcode" \notin DOMAIN d THEN Raise("AssertionError", "errorcode")
                  ELSE IF d.errorcode = "login failed"
                  THEN Raise("LoginException",
                             [msg |-> "Login failed, wrong password.",
                              attempts_allowed |-> d.data.attemptsAllowed,
                              attempts_total |-> d.data.failureCount + d.data.attemptsAllowed])
                  ELSE IF d.errorcode = "user conflict"
                  THEN Raise("UserConflictException", [msg |-> "Login conflict."])
                  ELSE Raise("LoginException", [msg |-> "response", response |-> d])
             ELSE IF d.success # TRUE THEN Raise("AssertionError", "success")
             ELSE Ret(d.data.stok)

\* __req_login, lines 414-445, on the outcome of its __request
login_outcome(out) ==
    IF out.kind = "raise" THEN out
    ELSE LET response == out.value
             d == response.d
         IN  IF ~Contains(response, "success") THEN Raise("AssertionError", "success")
             ELSE IF response.t = "str" THEN Raise("TypeError", "str indices")
             ELSE IF d.success = FALSE
             THEN IF "errorcode" \notin DOMAIN d THEN Raise("AssertionError", "errorcode")
                  ELSE IF d.errorcode = "login failed"
                  THEN Raise("LoginException",
                             [msg |-> "Login failed, wrong password.",
                              attempts_allowed |-> d.data.attemptsAllowed,
                              attempts_total |-> d.data.failureCount + d.data.attemptsAllowed])
                  ELSE IF d.errorcode = "exceeded max attempts"
                  THEN Raise("LoginException",
                             [msg |-> "Login failed, maximum login attempts exceeded."])
                  ELSE IF d.errorcode = "user conflict"
                  THEN Raise("UserConflictException", [msg |-> "Login conflict."])
                  ELSE Raise("LoginException", [msg |-> "response", response |-> d])
             ELSE IF d.success # TRUE THEN Raise("AssertionError", "success")
             ELSE Ret(d.data.stok)

\* __req_login(encrypted_pw, force_login), answered with the body text
req_login(enc_pw, force_login, text) ==
    LET r == request(get_url("login", "login"), login_data(enc_pw, force_login),
                     TRUE, TRUE, text)
    IN  [posted |-> r.posted, out |-> login_outcome(r.out)]

\* __req_logout(), answered with the body text
req_logout(text) ==
    LET r == request(get_url("admin/system", "logout"),
                     << [attr |-> "operation", value |-> S("write")] >>, TRUE, FALSE, text)
        response == r.out.value
    IN  [posted |-> r.posted,
         out |-> IF r.out.kind = "raise" THEN r.out
                 ELSE IF ~Contains(response, "success")
                 THEN Raise("AssertionError", "success")
                 ELSE IF response.t = "str" THEN Raise("TypeError", "str indices")
                 ELSE Ret(response.d.success)]

-----------------------------------------------------------------------------
(* The state machine *)

Init ==
    /\ token = None
    /\ rsa_key_pw = NoneT
    /\ rsa_key_auth = NoneT
    /\ md5_hash_pw = None
    /\ aes_key = NoneT
    /\ pc = "idle"
    /\ call = [fn |-> "__init__"]
    /\ encrypted_pw = NoneT
    /\ unblock = NoneT
    /\ posted = <<>>
    /\ result = Ret(None)
    /\ last_connect = [password |-> None, ended |-> "never"]
    /\ sign_io = NoneT
    /\ key_io = NoneT
    /\ aes_io = NoneT
    /\ router = NoneT

\* the call is left, by return or by an exception
Left(out) ==
    /\ pc' = "idle"
    /\ result' = out

\* the history of a step of connect()
Ended(pc1, result1) ==
    IF pc1 = "idle" THEN [last_connect EXCEPT !.ended = result1.kind] ELSE last_connect

\* connect(password, logout_others), line 72
Connect(password, logout_others) ==
    /\ pc = "idle"
    /\ call' = [fn |-> "connect", password |-> password, logout_others |-> logout_others,
                token0 |-> token]
    /\ posted' = <<>>
    /\ LET h == hash_pw("admin", password)
       IN  IF h.kind = "raise" THEN Left(h) /\ UNCHANGED md5_hash_pw
           ELSE md5_hash_pw' = h.value /\ pc' = "req_rsa_key_password" /\ result' = Pending
    /\ last_connect' = [password |-> password,
                        ended |-> IF pc' = "idle" THEN "raise" ELSE "running"]
    /\ UNCHANGED <<token, rsa_key_pw, rsa_key_auth, aes_key, encrypted_pw, unblock, sign_io, key_io, aes_io, router>>

\* line 75
ReqRsaKeyPassword(text) ==
    /\ pc = "req_rsa_key_password"
    /\ LET r == request(get_url("login", "keys"), read_data, FALSE, FALSE, text)
           out == rsa_key_password_of(r.out)
       IN  /\ posted' = posted \o r.posted
           /\ IF out.kind = "raise" THEN Left(out) /\ UNCHANGED rsa_key_pw
              ELSE rsa_key_pw' = out.value /\ pc' = "req_rsa_key_auth" /\ UNCHANGED result
    /\ UNCHANGED <<token, rsa_key_auth, md5_hash_pw, aes_key, call, encrypted_pw, unblock, sign_io, key_io, aes_io, router>>
    /\ last_connect' = Ended(pc', result')

\* line 76
ReqRsaKeyAuth(text) ==
    /\ pc = "req_rsa_key_auth"
    /\ LET r == request(get_url("login", "auth"), read_data, FALSE, FALSE, text)
           out == rsa_key_auth_of(r.out)
       IN  /\ posted' = posted \o r.posted
           /\ IF out.kind = "raise" THEN Left(out) /\ UNCHANGED rsa_key_auth
              ELSE rsa_key_auth' = out.value /\ pc' = "gen_aes_key" /\ UNCHANGED result
    /\ UNCHANGED <<token, rsa_key_pw, md5_hash_pw, aes_key, call, encrypted_pw, unblock, sign_io, key_io, aes_io, router>>
    /\ last_connect' = Ended(pc', result')

\* line 79
GenAesKey(ts, r1, r2) ==
    /\ pc = "gen_aes_key"
    /\ LET out == gen_aes_key(ts, r1, r2)
       IN  IF out.kind = "raise" THEN Left(out) /\ UNCHANGED aes_key
           ELSE aes_key' = out.value /\ pc' = "encrypt_pw" /\ UNCHANGED result
    /\ UNCHANGED <<token, rsa_key_pw, rsa_key_auth, md5_hash_pw, call, encrypted_pw,
                   unblock, posted, sign_io, key_io, aes_io, router>>
    /\ last_connect' = Ended(pc', result')

\* line 82
EncryptPw(r) ==
    /\ pc = "encrypt_pw"
    /\ LET out == encrypt_pw(call.password, r)
       IN  IF out.kind = "raise" THEN Left(out) /\ UNCHANGED encrypted_pw
           ELSE encrypted_pw' = out.value /\ pc' = "req_login" /\ UNCHANGED result
    /\ UNCHANGED <<token, rsa_key_pw, rsa_key_auth, md5_hash_pw, aes_key, call, unblock,
                   posted, sign_io, key_io, aes_io, router>>
    /\ last_connect' = Ended(pc', result')

\* mutant: the except branch retries whatever logout_others says
ReqLogin_always_retry(text) ==
    /\ pc = "req_login"
    /\ LET r == req_login(encrypted_pw, FALSE, text)
       IN  /\ posted' = posted \o r.posted
           /\ IF r.out.kind = "return"
              THEN token' = r.out.value /\ pc' = "idle" /\ result' = Ret(None)
              ELSE IF r.out.exc = "UserConflictException"
              THEN pc' = "req_login_confirm" /\ UNCHANGED <<token, result>>
              ELSE Left(r.out) /\ UNCHANGED token
    /\ encrypted_pw' = IF pc' = "idle" THEN NoneT ELSE encrypted_pw
    /\ UNCHANGED <<rsa_key_pw, rsa_key_auth, md5_hash_pw, aes_key, call, unblock, sign_io, key_io, aes_io, router>>
    /\ last_connect' = Ended(pc', result')

\* lines 85-91, the try: the first login request
ReqLogin(text) ==
    /\ pc = "req_login"
    /\ LET r == req_login(encrypted_pw, FALSE, text)
       IN  /\ posted' = posted \o r.posted
           /\ IF r.out.kind = "return"
              THEN token' = r.out.value /\ pc' = "idle" /\ result' = Ret(None)
              ELSE IF r.out.exc = "UserConflictException" /\ call.logout_others
              THEN pc' = "req_login_confirm" /\ UNCHANGED <<token, result>>
              ELSE Left(r.out) /\ UNCHANGED token
    /\ encrypted_pw' = IF pc' = "idle" THEN NoneT ELSE encrypted_pw
    /\ UNCHANGED <<rsa_key_pw, rsa_key_auth, md5_hash_pw, aes_key, call, unblock,
                   sign_io, key_io, aes_io, router>>
    /\ last_connect' = Ended(pc', result')

\* mutant: the token of the retry is not assigned
ReqLoginConfirm_keeps_token(text) ==
    /\ pc = "req_login_confirm"
    /\ LET r == req_login(encrypted_pw, TRUE, text)
       IN  /\ posted' = posted \o r.posted
           /\ IF r.out.kind = "return"
              THEN pc' = "idle" /\ result' = Ret(None)
              ELSE Left(r.out)
    /\ encrypted_pw' = NoneT
    /\ UNCHANGED <<token, rsa_key_pw, rsa_key_auth, md5_hash_pw, aes_key, call, unblock,
                   sign_io, key_io, aes_io, router>>
    /\ last_connect' = Ended(pc', result')

\* line 89, the except: the login request with confirm
ReqLoginConfirm(text) ==
    /\ pc = "req_login_confirm"
    /\ LET r == req_login(encrypted_pw, TRUE, text)
       IN  /\ posted' = posted \o r.posted
           /\ IF r.out.kind = "return"
              THEN token' = r.out.value /\ pc' = "idle" /\ result' = Ret(None)
              ELSE Left(r.out) /\ UNCHANGED token
    /\ encrypted_pw' = NoneT
    /\ UNCHANGED <<rsa_key_pw, rsa_key_auth, md5_hash_pw, aes_key, call, unblock,
                   sign_io, key_io, aes_io, router>>
    /\ last_connect' = Ended(pc', result')

\* mutant: logout() also forgets the keys and the sequence of the session
Logout_forgets_keys ==
    /\ pc = "idle"
    /\ call' = [fn |-> "logout", token0 |-> token]
    /\ \/ /\ token = None
          /\ posted' = <<>>
          /\ result' = Ret(FALSE)
          /\ UNCHANGED <<token, rsa_key_auth, aes_key>>
       \/ /\ token # None
          /\ \E text \in EncryptedBodies(LogoutReplies) :
                LET r == req_logout(text)
                IN  /\ posted' = r.posted
                    /\ result' = r.out
                    /\ IF r.out.kind = "raise" THEN UNCHANGED <<token, rsa_key_auth, aes_key>>
                       ELSE token' = None /\ rsa_key_auth' = NoneT /\ aes_key' = NoneT
    /\ UNCHANGED <<rsa_key_pw, md5_hash_pw, pc, encrypted_pw,
                   unblock, last_connect, sign_io, key_io, aes_io, router>>

\* mutant: line 98 lost, the token survives the logout
Logout_keeps_token ==
    /\ pc = "idle"
    /\ call' = [fn |-> "logout", token0 |-> token]
    /\ \/ /\ token = None
          /\ posted' = <<>>
          /\ result' = Ret(FALSE)
       \/ /\ token # None
          /\ \E text \in EncryptedBodies(LogoutReplies) :
                LET r == req_logout(text)
                IN  posted' = r.posted /\ result' = r.out
    /\ UNCHANGED <<token, rsa_key_pw, rsa_key_auth, md5_hash_pw, aes_key, pc, encrypted_pw,
                   unblock, last_connect, sign_io, key_io, aes_io, router>>

\* logout(), lines 93-100
Logout ==
    /\ pc = "idle"
    /\ call' = [fn |-> "logout", token0 |-> token]
    /\ \/ /\ token = None
          /\ posted' = <<>>
          /\ result' = Ret(FALSE)
          /\ UNCHANGED token
       \/ /\ token # None
          /\ \E text \in EncryptedBodies(LogoutReplies) :
                LET r == req_logout(text)
                IN  /\ posted' = r.posted
                    /\ result' = r.out
                    /\ IF r.out.kind = "raise" THEN UNCHANGED token ELSE token' = None
    /\ UNCHANGED <<rsa_key_pw, rsa_key_auth, md5_hash_pw, aes_key, pc, encrypted_pw,
                   unblock, last_connect, sign_io, key_io, aes_io, router>>

-----------------------------------------------------------------------------
(* The device operations, lines 102-190 *)

LedStatuses == {"toggle"}

access_control(form) == get_url("admin/access_control", form)

load_data == << [attr |-> "operation", value |-> S("load")] >>

\* urllib.parse.quote_plus of the JSON list holding the device (lines 153-158)
encoded_device_data(mac) ==
    "%5B%7B%22mac%22%3A+%22" \o mac \o "%22%2C+%22host%22%3A+%22NOT+HOST%22%7D%5D"

block_data(mac) ==
    << [attr |-> "operation", value |-> S("block")],
       [attr |-> "key", value |-> S("key=1")],
       [attr |-> "index", value |-> S(str(0))],
       [attr |-> "data", value |-> S(encoded_device_data(mac))] >>

\* mutant: the index counted from 1
remove_data_from_one(key, index) ==
    << [attr |-> "key", value |-> S(key)],
       [attr |-> "index", value |-> S(str(index + 1))],
       [attr |-> "operation", value |-> S("remove")] >>

remove_data(key, index) ==
    << [attr |-> "key", value |-> S(key)],
       [attr |-> "index", value |-> S(str(index))],
       [attr |-> "operation", value |-> S("remove")] >>

RECURSIVE scan_devices_no_break(_, _, _)
\* mutant: the break of line 180 lost, a later entry with the mac wins
scan_devices_no_break(devices, mac, index) ==
    IF index >= Len(devices) THEN [device_found |-> FALSE, key |-> "anything", index |-> index]
    ELSE LET device == devices[index + 1]
             later == scan_devices_no_break(devices, mac, index + 1)
         IN  IF later.device_found THEN later
             ELSE IF device.mac = mac
             THEN [device_found |-> TRUE, index |-> index,
                   key |-> IF "key" \in DOMAIN device THEN device.key ELSE "anything"]
             ELSE later

RECURSIVE scan_devices(_, _, _)
\* the for loop of lines 176-181, from position index on
scan_devices(devices, mac, index) ==
    IF index >= Len(devices) THEN [device_found |-> FALSE, key |-> "anything", index |-> index]
    ELSE LET device == devices[index + 1]
         IN  IF device.mac = mac
             THEN [device_found |-> TRUE, index |-> index,
                   key |-> IF "key" \in DOMAIN device THEN device.key ELSE "anything"]
             ELSE scan_devices(devices, mac, index + 1)

\* lines 171-181 on the outcome of get_black_list()
scan_black_list(out, mac) ==
    IF out.kind = "raise" THEN out
    ELSE IF out.value.t = "str" THEN Raise("TypeError", "str indices")
    ELSE IF "data" \notin DOMAIN out.value.d THEN Raise("KeyError", "data")
    ELSE Ret(scan_devices(out.value.d.data, mac, 0))

\* one encrypted request made for the caller, its result returned as it is
DeviceCall(c, url, data, replies) ==
    /\ pc = "idle"
    /\ call' = c
    /\ \E text \in DeviceBodies(replies) :
          LET r == request(url, data, TRUE, FALSE, text)
          IN  posted' = r.posted /\ result' = r.out
    /\ UNCHANGED <<token, rsa_key_pw, rsa_key_auth, md5_hash_pw, aes_key, pc, encrypted_pw,
                   unblock, last_connect, sign_io, key_io, aes_io, router>>

GetClientList ==
    DeviceCall([fn |-> "get_client_list"],
               get_url("admin/status", "client_status"), read_data, DeviceReplies)

GetLedStatus ==
    DeviceCall([fn |-> "get_led_status"],
               get_url("admin/ledgeneral", "setting"), read_data, DeviceReplies)

SetLedStatus(status) ==
    DeviceCall([fn |-> "set_led_status", status |-> status],
               get_url("admin/ledgeneral", "setting"),
               << [attr |-> "operation", value |-> S("write")],
                  [attr |-> "led_status", value |-> S(status)] >>, DeviceReplies)

GetBlackDevices ==
    DeviceCall([fn |-> "get_black_devices"],
               access_control("black_devices"), load_data, DeviceReplies)

GetBlackList ==
    DeviceCall([fn |-> "get_black_list"],
               access_control("black_list"), load_data, BlackListReplies)

BlockDevice(mac) ==
    DeviceCall([fn |-> "block_device", mac |-> mac],
               access_control("black_devices"), block_data(mac), DeviceReplies)

\* unblock_device(mac), lines 170-183: the list is fetched and scanned
UnblockDevice(mac) ==
    /\ pc = "idle"
    /\ call' = [fn |-> "unblock_device", mac |-> mac]
    /\ \E text \in DeviceBodies(BlackListReplies) :
          LET r == request(access_control("black_list"), load_data, TRUE, FALSE, text)
              scan == scan_black_list(r.out, mac)
          IN  /\ posted' = r.posted
              /\ IF scan.kind = "raise" THEN Left(scan) /\ UNCHANGED unblock
                 ELSE IF ~scan.value.device_found
                 THEN Left(Ret("Device not found in black list")) /\ UNCHANGED unblock
                 ELSE /\ unblock' = [key |-> scan.value.key, index |-> scan.value.index]
                      /\ pc' = "unblock_remove"
                      /\ result' = Pending
    /\ UNCHANGED <<token, rsa_key_pw, rsa_key_auth, md5_hash_pw, aes_key, encrypted_pw,
                   last_connect, sign_io, key_io, aes_io, router>>

\* lines 184-190: the remove request
UnblockRemove(text) ==
    /\ pc = "unblock_remove"
    /\ LET r == request(access_control("black_list"),
                        remove_data(unblock.key, unblock.index), TRUE, FALSE, text)
       IN  posted' = posted \o r.posted /\ Left(r.out)
    /\ unblock' = NoneT
    /\ UNCHANGED <<token, rsa_key_pw, rsa_key_auth, md5_hash_pw, aes_key, call, encrypted_pw,
                   last_connect, sign_io, key_io, aes_io, router>>

Next ==
    \/ \E password \in Passwords, logout_others \in BOOLEAN : Connect(password, logout_others)
    \/ \E text \in KeysBodies : ReqRsaKeyPassword(text)
    \/ \E text \in AuthBodies : ReqRsaKeyAuth(text)
    \/ \E ts \in Timestamps, r1 \in Rands, r2 \in Rands : GenAesKey(ts, r1, r2)
    \/ \E r \in Nonces : EncryptPw(r)
    \/ \E text \in EncryptedBodies(LoginReplies) : ReqLogin(text)
    \/ \E text \in EncryptedBodies(LoginReplies) : ReqLoginConfirm(text)
    \/ Logout
    \/ GetClientList
    \/ GetLedStatus
    \/ \E status \in LedStatuses : SetLedStatus(status)
    \/ GetBlackDevices
    \/ GetBlackList
    \/ \E mac \in Macs : BlockDevice(mac)
    \/ \E mac \in Macs : UnblockDevice(mac)
    \/ \E text \in DeviceBodies(DeviceReplies) : UnblockRemove(text)

Spec == Init /\ [][Next]_vars

-----------------------------------------------------------------------------
(* The chunk loop alone, on signing strings of every length up to a bound *)

MaxSignLen == 160
MaxOffset == 2

SignSample ==
    "k=1762425600000100&i=1762425600000999&h=e3274be5c857fb42ab72d786e281b4b8&s=12729"

RECURSIVE Repeat(_, _)
Repeat(s, n) == IF n = 0 THEN "" ELSE s \o Repeat(s, n - 1)

SignStrings ==
    LET source == Repeat(SignSample, ((MaxSignLen + MaxOffset) \div Len(SignSample)) + 1)
    IN  {SubSeq(source, off, off + len - 1) : len \in 0..MaxSignLen, off \in 1..MaxOffset}

\* the auth keys that pass the checks of lines 392-393
AcceptedAuthKeys == {k \in AuthKeys : k[1].len = 128 /\ k[2].len = 6}

InitSign ==
    /\ token = None
    /\ rsa_key_pw = NoneT
    /\ rsa_key_auth = NoneT
    /\ md5_hash_pw = None
    /\ aes_key = NoneT
    /\ pc = "idle"
    /\ call = [fn |-> "__init__"]
    /\ encrypted_pw = NoneT
    /\ unblock = NoneT
    /\ posted = <<>>
    /\ result = Ret(None)
    /\ last_connect = [password |-> None, ended |-> "never"]
    /\ sign_io \in {[sign_data |-> s, key |-> k, out |-> Pending] :
                       s \in SignStrings, k \in AcceptedAuthKeys}
    /\ key_io = NoneT
    /\ aes_io = NoneT
    /\ router = NoneT

\* lines 345-357 run on sign_io.sign_data
Sign ==
    /\ sign_io.out = Pending
    /\ sign_io' = [sign_io EXCEPT !.out = sign(sign_io.sign_data, sign_io.key)]
    /\ UNCHANGED <<token, rsa_key_pw, rsa_key_auth, md5_hash_pw, aes_key, pc, call,
                   encrypted_pw, unblock, posted, result, last_connect, key_io, aes_io, router>>

NextSign == Sign

SpecSign == InitSign /\ [][NextSign]_vars

-----------------------------------------------------------------------------
(* __gen_aes_key alone, on clock readings of every length and more draws *)

\* str(round(time.time() * 1000)): readings of 1 to 17 digits
KeyTimestamps ==
    {"0", "42", "5000", "999999", "1000000", "9999999", "946684800000",
     "1762425600000", "1762425600001", "99999999999999", "12345678901234567"}

\* random.randint(100000000, 1000000000-1): the ends and values between
KeyRands == {100000000, 123456789, 987654321, 999999999}

InitKey ==
    /\ token = None
    /\ rsa_key_pw = NoneT
    /\ rsa_key_auth = NoneT
    /\ md5_hash_pw = None
    /\ aes_key = NoneT
    /\ pc = "idle"
    /\ call = [fn |-> "__init__"]
    /\ encrypted_pw = NoneT
    /\ unblock = NoneT
    /\ posted = <<>>
    /\ result = Ret(None)
    /\ last_connect = [password |-> None, ended |-> "never"]
    /\ sign_io = NoneT
    /\ key_io \in {[ts |-> ts, r1 |-> r1, r2 |-> r2, out |-> Pending] :
                      ts \in KeyTimestamps, r1 \in KeyRands, r2 \in KeyRands}
    /\ aes_io = NoneT
    /\ router = NoneT

\* lines 305-317 run on the reading and the draws of key_io
GenKey ==
    /\ key_io.out = Pending
    /\ key_io' = [key_io EXCEPT !.out = gen_aes_key(key_io.ts, key_io.r1, key_io.r2)]
    /\ UNCHANGED <<token, rsa_key_pw, rsa_key_auth, md5_hash_pw, aes_key, pc, call,
                   encrypted_pw, unblock, posted, result, last_connect, sign_io, aes_io, router>>

NextKey == GenKey

SpecKey == InitKey /\ [][NextKey]_vars

-----------------------------------------------------------------------------
(* The body encryption of __request alone, on bytes: what lines 200-204 make
   of a text and what lines 235-241 make of the result.  A byte is a number
   in 0..255; AES itself is a block cipher that only its key undoes. *)

MaxMsgLen == 33

\* mutant: nothing is added to a text that already fills its blocks
pkcs7_pad_lazy(data, block_size) ==
    LET n == (block_size - (Len(data) % block_size)) % block_size
    IN  data \o [i \in 1..n |-> n]

\* pad(data, 16, 'pkcs7'): n bytes of value n, n the distance to the next boundary
pkcs7_pad(data, block_size) ==
    LET n == block_size - (Len(data) % block_size)
    IN  data \o [i \in 1..n |-> n]

\* unpad(data, 16, 'pkcs7')
pkcs7_unpad(padded_data, block_size) ==
    IF Len(padded_data) = 0
    THEN Raise("ValueError", "Zero-length input cannot be unpadded")
    ELSE IF Len(padded_data) % block_size # 0
    THEN Raise("ValueError", "Input data is not padded")
    ELSE LET padding_len == padded_data[Len(padded_data)]
         IN  IF padding_len < 1 \/ padding_len > Min(block_size, Len(padded_data))
             THEN Raise("ValueError", "Padding is incorrect.")
             ELSE IF \E i \in (Len(padded_data) - padding_len + 1)..Len(padded_data) :
                        padded_data[i] # padding_len
             THEN Raise("ValueError", "PKCS#7 padding is incorrect.")
             ELSE Ret(SubSeq(padded_data, 1, Len(padded_data) - padding_len))

\* __gen_aes_cipher(aes_key): a new CBC cipher, its chain starting at the iv
gen_aes_cipher(k) == [key |-> k[1], iv |-> k[2]]

\* block i of the data, 16 bytes
BlockOf(data, i) == SubSeq(data, BlockSize * (i - 1) + 1, BlockSize * i)

RECURSIVE cbc_blocks(_, _, _)
\* the first n cipher blocks: block i encrypts plaintext block i combined with
\* cipher block i-1 (the iv for the first)
cbc_blocks(cipher, data, n) ==
    IF n = 0 THEN <<>>
    ELSE LET before == cbc_blocks(cipher, data, n - 1)
             prev == IF n = 1 THEN [iv |-> cipher.iv] ELSE [c |-> before[n - 1]]
         IN  Append(before, [key |-> cipher.key, prev |-> prev, pt |-> BlockOf(data, n)])

\* cipher.encrypt(data)
cbc_encrypt(cipher, data) ==
    IF Len(cipher.key) # 16 THEN Raise("ValueError", "Incorrect AES key length")
    ELSE IF Len(data) % BlockSize # 0
    THEN Raise("ValueError", "Data must be padded to 16 byte boundary in CBC mode")
    ELSE Ret(cbc_blocks(cipher, data, Len(data) \div BlockSize))

\* 16 bytes that are no text of the sender
Garbled == [i \in 1..BlockSize |-> 256]

RECURSIVE cbc_plain(_, _, _)
\* the plaintext of the first n blocks: a block opens to its text under the key
\* that made it and after the block (or iv) it was chained to
cbc_plain(cipher, blocks, n) ==
    IF n = 0 THEN <<>>
    ELSE LET prev == IF n = 1 THEN [iv |-> cipher.iv] ELSE [c |-> blocks[n - 1]]
             b == blocks[n]
         IN  cbc_plain(cipher, blocks, n - 1)
             \o (IF b.key = cipher.key /\ b.prev = prev THEN b.pt ELSE Garbled)

\* cipher.decrypt(blocks)
cbc_decrypt(cipher, blocks) ==
    IF Len(cipher.key) # 16 THEN Raise("ValueError", "Incorrect AES key length")
    ELSE Ret(cbc_plain(cipher, blocks, Len(blocks)))

\* lines 200-204: the bytes of data_str padded and encrypted under self.aes_key
encrypt_body(data, k) == cbc_encrypt(gen_aes_cipher(k), pkcs7_pad(data, BlockSize))

\* lines 238-241: the response decrypted under self.aes_key and unpadded
decrypt_body(blocks, k) ==
    LET response == cbc_decrypt(gen_aes_cipher(k), blocks)
    IN  IF response.kind = "raise" THEN response
        ELSE pkcs7_unpad(response.value, BlockSize)

\* texts of every length up to the bound: of letters, and of bytes that look
\* like padding
AesMessages == {[i \in 1..len |-> b] : len \in 0..MaxMsgLen, b \in {1, 16, 97}}

\* the keys __gen_aes_key returns for the readings and draws of connect()
AesKeys == {gen_aes_key(ts, r1, r2).value : ts \in Timestamps, r1 \in Rands, r2 \in Rands}

InitAes ==
    /\ token = None
    /\ rsa_key_pw = NoneT
    /\ rsa_key_auth = NoneT
    /\ md5_hash_pw = None
    /\ aes_key = NoneT
    /\ pc = "idle"
    /\ call = [fn |-> "__init__"]
    /\ encrypted_pw = NoneT
    /\ unblock = NoneT
    /\ posted = <<>>
    /\ result = Ret(None)
    /\ last_connect = [password |-> None, ended |-> "never"]
    /\ sign_io = NoneT
    /\ key_io = NoneT
    /\ aes_io \in {[m |-> m, key |-> k, sent |-> Pending, out |-> Pending] :
                      m \in AesMessages, k \in AesKeys}
    /\ router = NoneT

\* the request path on aes_io.m
EncryptBody ==
    /\ aes_io.sent = Pending
    /\ aes_io' = [aes_io EXCEPT !.sent = encrypt_body(aes_io.m, aes_io.key)]
    /\ UNCHANGED <<token, rsa_key_pw, rsa_key_auth, md5_hash_pw, aes_key, pc, call,
                   encrypted_pw, unblock, posted, result, last_connect, sign_io, key_io,
                   router>>

\* the response path on what the request path produced
DecryptBody ==
    /\ aes_io.sent # Pending /\ aes_io.sent.kind = "return"
    /\ aes_io.out = Pending
    /\ aes_io' = [aes_io EXCEPT !.out = decrypt_body(aes_io.sent.value, aes_io.key)]
    /\ UNCHANGED <<token, rsa_key_pw, rsa_key_auth, md5_hash_pw, aes_key, pc, call,
                   encrypted_pw, unblock, posted, result, last_connect, sign_io, key_io,
                   router>>

NextAes == EncryptBody \/ DecryptBody

SpecAes == InitAes /\ [][NextAes]_vars

-----------------------------------------------------------------------------
(* Reading the exchanges of a call *)

IsKeysRead(x) == x.url.endpoint = "login" /\ x.url.form = "keys"
IsAuthRead(x) == x.url.endpoint = "login" /\ x.url.form = "auth"
IsLoginReq(x) == x.url.endpoint = "login" /\ x.url.form = "login"
IsAuthenticatedReq(x) == ~IsKeysRead(x) /\ ~IsAuthRead(x)

LoginReqs == SelectSeq(posted, IsLoginReq)

Last(seq) == seq[Len(seq)]

\* the names of the fields of a posted body, in order
AttrsOf(x) == [i \in 1..Len(x.body) |-> x.body[i].attr]

\* the form text inside the data field of an encrypted request
FormOf(x) == x.body[2].value.b64.pt.body

\* the length of the base64 data field of an encrypted request
DataLenOf(x) == x.body[2].value.len

RECURSIVE ConcatPt(_)
\* the plaintexts of the chunks of a signature, joined in order
ConcatPt(signature) ==
    IF signature = <<>> THEN "" ELSE Head(signature).pt \o ConcatPt(Tail(signature))

\* the signing string inside the sign field of an encrypted request
SignedTextOf(x) == ConcatPt(x.body[1].value)

\* how __req_login classifies the reply of a login exchange
Classified(x) == login_outcome(read_response(x.text, TRUE))

IsConflict(x) == Classified(x).kind = "raise" /\ Classified(x).exc = "UserConflictException"

LoginText(x) ==
    << S("operation"), S("="), S("login"), S("&"), S("password"), S("="), FormOf(x)[7] >>

ConfirmSuffix == << S("&"), S("confirm"), S("="), S("true") >>

\* the body {success: true, data: {stok: t}}, enveloped for this session
OkText(t) == Envelope(JsonDoc([success |-> TRUE, data |-> [stok |-> t]]))

\* the session as the handshake's state machine sees it: the last connect()
\* succeeded and its token has not been given up
Authenticated(tok) == tok # None /\ last_connect.ended = "return"

-----------------------------------------------------------------------------
(* C1: in connect(password, logout_others = True), when the first login reply is
   classified as a user conflict, exactly one more login request is sent; it
   carries the same encrypted password and confirm=true; connect() ends as that
   second request ends: its token stored on success, its failure (a second
   conflict too) propagated with no third request and the token left as it was. *)
C1_ConflictRetry ==
    (call.fn = "connect" /\ call.logout_others /\ LoginReqs # <<>>
     /\ IsConflict(LoginReqs[1]))
    => /\ pc \in {"req_login_confirm", "idle"}
       /\ FormOf(LoginReqs[1]) = LoginText(LoginReqs[1])
       /\ pc = "req_login_confirm" => Len(LoginReqs) = 1
       /\ pc = "idle" =>
            /\ Len(LoginReqs) = 2
            /\ FormOf(LoginReqs[2]) = FormOf(LoginReqs[1]) \o ConfirmSuffix
            /\ LET second == Classified(LoginReqs[2])
               IN  IF second.kind = "return"
                   THEN result = Ret(None) /\ token = second.value
                   ELSE result = second /\ token = call.token0

\* a retried connect() that ended with the token of the second reply
C1_Witness ==
    /\ pc = "idle" /\ call.fn = "connect" /\ call.logout_others
    /\ Len(LoginReqs) = 2
    /\ IsConflict(LoginReqs[1])
    /\ Classified(LoginReqs[2]).kind = "return"
    /\ token = Classified(LoginReqs[2]).value
    /\ token # call.token0

(* C2: in connect(password, logout_others = False), a login reply classified as
   a user conflict ends the call with UserConflictException, an exception no
   other login failure raises; one login request was sent, none with confirm,
   and the token is the one held before the call. *)
C2_ConflictPropagated ==
    /\ (call.fn = "connect" /\ ~call.logout_others /\ LoginReqs # <<>>
        /\ IsConflict(LoginReqs[1]))
       => /\ pc = "idle"
          /\ result.kind = "raise" /\ result.exc = "UserConflictException"
          /\ Len(LoginReqs) = 1
          /\ FormOf(LoginReqs[1]) = LoginText(LoginReqs[1])
          /\ token = call.token0
    /\ (call.fn = "connect" /\ pc = "idle" /\ LoginReqs # <<>>
        /\ ~IsConflict(Last(LoginReqs)) /\ result.kind = "raise")
       => result.exc # "UserConflictException"

C2_Witness ==
    /\ pc = "idle" /\ call.fn = "connect" /\ ~call.logout_others
    /\ Len(LoginReqs) = 1
    /\ IsConflict(LoginReqs[1])
    /\ result.kind = "raise" /\ result.exc = "UserConflictException"
    /\ call.token0 # None

(* C3 (as claimed): when the login request of connect() fails with LoginFailed,
   MaxAttemptsExceeded or an unknown failure, no further login request is sent,
   the failure is propagated, and the session holds no token afterwards,
   whatever it held when connect() was called. *)
C3_NoTokenAfterLoginFailure ==
    (call.fn = "connect" /\ LoginReqs # <<>>
     /\ Classified(Last(LoginReqs)).kind = "raise"
     /\ Classified(Last(LoginReqs)).exc = "LoginException")
    => /\ pc = "idle"
       /\ result = Classified(Last(LoginReqs))
       /\ token = None

(* C4: when the reply to the last login request of connect() (the first
   request, or the confirm retry after a conflict) is {success: true,
   data: {stok: t}}, connect() has returned and the stored token is t. *)
C4_SuccessfulLogin ==
    \A t \in Tokens :
        (call.fn = "connect" /\ LoginReqs # <<>> /\ Last(LoginReqs).text = OkText(t))
        => /\ pc = "idle"
           /\ result = Ret(None)
           /\ token = t
           /\ Authenticated(token)

\* the confirm retry succeeded and replaced the token of an earlier connect()
C4_Witness ==
    /\ pc = "idle" /\ call.fn = "connect"
    /\ Len(LoginReqs) = 2
    /\ \E t \in Tokens : Last(LoginReqs).text = OkText(t) /\ token = t
    /\ call.token0 # None /\ call.token0 # token

(* C5: logout() on an authenticated session posts one encrypted request,
   operation=write, to admin/system?form=logout under the session's token;
   when the router's reply carries a success flag, the token is cleared and
   the flag is returned, be it true or false. *)
C5_LogoutAuthenticated ==
    (call.fn = "logout" /\ Authenticated(call.token0))
    => /\ pc = "idle"
       /\ Len(posted) = 1
       /\ posted[1].url = [stok |-> call.token0, endpoint |-> "admin/system",
                           form |-> "logout"]
       /\ AttrsOf(posted[1]) = <<"sign", "data">>
       /\ FormOf(posted[1]) = << S("operation"), S("="), S("write") >>
       /\ \A flag \in BOOLEAN :
            posted[1].text = Envelope(JsonDoc([success |-> flag]))
            => token = None /\ result = Ret(flag)

\* the router refused the logout: the flag false is returned, the token is gone
C5_Witness ==
    /\ call.fn = "logout" /\ Authenticated(call.token0)
    /\ Len(posted) = 1
    /\ posted[1].text = Envelope(JsonDoc([success |-> FALSE]))
    /\ token = None /\ result = Ret(FALSE)

(* C6 (as claimed): logout() on a session that is not authenticated (never
   connected, the last connect() failed, already logged out) returns False,
   posts nothing and leaves the token as it was. *)
C6_LogoutElsewhereIsNoOp ==
    (call.fn = "logout" /\ ~Authenticated(call.token0))
    => /\ pc = "idle"
       /\ result = Ret(FALSE)
       /\ posted = <<>>
       /\ token = call.token0

\* the replies that pass the checks of the two key reads and parse as hex
ValidKeysReply(x) ==
    /\ x.text.kind = "json"
    /\ x.text.value.success = TRUE
    /\ LET k == x.text.value.data.password
       IN  k[1].len = 256 /\ k[2].len = 6 /\ k[1].hex /\ k[2].hex

ValidAuthReply(x) ==
    /\ x.text.kind = "json"
    /\ x.text.value.success = TRUE
    /\ LET k == x.text.value.data.key
       IN  k[1].len = 128 /\ k[2].len = 6 /\ k[1].hex /\ k[2].hex

(* C7: in every connect() the password-key read comes first, the auth-key read
   second, and the session key is generated and the login requests are sent
   only after both; a login request is sent only when both reads answered
   success=true with hex keys of 256/6 and 128/6 characters; when a read
   does not, connect() raises, sends no login request and stores no token. *)
C7_HandshakeOrder ==
    call.fn = "connect"
    => /\ \A i \in 1..Len(posted) :
            /\ i = 1 => IsKeysRead(posted[i])
            /\ i = 2 => IsAuthRead(posted[i])
            /\ i >= 3 => IsLoginReq(posted[i])
       /\ pc = "req_rsa_key_password" => posted = <<>>
       /\ pc = "req_rsa_key_auth" => Len(posted) = 1
       /\ pc \in {"gen_aes_key", "encrypt_pw", "req_login"} => Len(posted) = 2
       /\ pc = "req_login_confirm" => Len(posted) = 3
       /\ Len(posted) >= 3 => ValidKeysReply(posted[1]) /\ ValidAuthReply(posted[2])
       /\ (pc = "idle" /\ (Len(posted) < 2 \/ ~ValidKeysReply(posted[1])
                           \/ ~ValidAuthReply(posted[2])))
          => /\ result.kind = "raise"
             /\ LoginReqs = <<>>
             /\ token = call.token0

\* the auth key came with a wrong length: the call ended after two reads
C7_Witness ==
    /\ call.fn = "connect" /\ pc = "idle"
    /\ Len(posted) = 2
    /\ ValidKeysReply(posted[1])
    /\ posted[2].text.kind = "json"
    /\ posted[2].text.value.data.key[1].len # 128
    /\ result.kind = "raise" /\ result.exc = "AssertionError"

(* C8: the body of every authenticated request (login, logout, device
   operations) has exactly the fields sign and data, in that order; sign
   holds RSA ciphertexts under the auth key, data the base64 of the AES
   ciphertext of the caller's form, so no form field is sent outside data. *)
C8_EnvelopeOrder ==
    \A i \in 1..Len(posted) :
        IsAuthenticatedReq(posted[i])
        => /\ AttrsOf(posted[i]) = <<"sign", "data">>
           /\ DOMAIN posted[i].url = {"stok", "endpoint", "form"}
           /\ posted[i].body[1].value # <<>>
           /\ \A c \in 1..Len(posted[i].body[1].value) :
                posted[i].body[1].value[c].n = rsa_key_auth[1]
           /\ posted[i].body[2].value.b64.aes = aes_key
           /\ FormOf(posted[i])[1] \in {S("operation"), S("key")}

\* block_device posted its form, which has a field named data of its own
C8_Witness ==
    /\ pc = "idle" /\ call.fn = "block_device"
    /\ Len(posted) = 1
    /\ AttrsOf(posted[1]) = <<"sign", "data">>
    /\ \E j \in 1..Len(FormOf(posted[1])) : FormOf(posted[1])[j] = S("data")

\* the signing string C9 expects for the exchange x
ExpectedSignData(x) ==
    LET n == rsa_key_auth[3] + DataLenOf(x)
        h == MD5_hexdigest("admin" \o last_connect.password)
    IN  IF IsLoginReq(x)
        THEN "k=" \o aes_key[1] \o "&i=" \o aes_key[2] \o "&h=" \o h \o "&s=" \o str(n)
        ELSE "h=" \o h \o "&s=" \o str(n)

(* C9: the signing string of a login request is k=<key>&i=<iv>&h=<hash>&s=<n>,
   that of any other authenticated request is h=<hash>&s=<n>, where n is the
   stored auth sequence plus the length of the base64 data field of that
   request and hash is the MD5 of admin + the password of the latest connect(). *)
C9_SigningString ==
    \A i \in 1..Len(posted) :
        IsAuthenticatedReq(posted[i])
        => SignedTextOf(posted[i]) = ExpectedSignData(posted[i])

\* a request other than login, signed after a connect() with the second password
\* and the sequence whose sum with the length has one more digit
C9_Witness ==
    /\ pc = "idle" /\ call.fn = "set_led_status"
    /\ Len(posted) = 1
    /\ last_connect.password = "hunter2"
    /\ rsa_key_auth[3] = 999999990
    /\ Len(SignedTextOf(posted[1])) = 47

\* ceil(len / 53)
ChunkCount(len) == (len + 52) \div 53

(* C10: when the chunk loop returns for a signing string of L characters, it
   has encrypted ceil(L/53) chunks: chunk i is characters 53(i-1)+1 .. min(53i, L)
   of the string, so all but the last hold 53 characters, the last 1 to 53,
   and together they are the string; the signature is their ciphertexts in
   that order, each of 2 * keyByteLength hex characters. *)
C10_Chunking ==
    sign_io # NoneT /\ sign_io.out.kind = "return"
    => LET sign_data == sign_io.sign_data
           signature == sign_io.out.value
           k == (sign_io.key[1].bits + 7) \div 8
       IN  /\ Len(signature) = ChunkCount(Len(sign_data))
           /\ \A i \in 1..Len(signature) :
                /\ signature[i].pt = SubSeq(sign_data, 53 * (i - 1) + 1,
                                            Min(53 * i, Len(sign_data)))
                /\ i < Len(signature) => Len(signature[i].pt) = 53
                /\ Len(signature[i].pt) \in 1..53
                /\ signature[i].n = sign_io.key[1]
                /\ signature[i].hexlen = 2 * k
           /\ ConcatPt(signature) = sign_data

\* three chunks, the last one short
C10_Witness ==
    /\ sign_io # NoneT /\ sign_io.out.kind = "return"
    /\ Len(sign_io.sign_data) = 130
    /\ Len(sign_io.out.value) = 3
    /\ Len(sign_io.out.value[3].pt) = 24

-----------------------------------------------------------------------------
\* the exchange was answered with a JSON envelope whose data decrypts, under
\* the session's key, to a JSON object
HasReply(x) ==
    /\ x.text.kind = "json"
    /\ "data" \in DOMAIN x.text.value
    /\ x.text.value.data.b64.aes = aes_key
    /\ x.text.value.data.b64.pt.body.kind = "json"

\* that JSON object
ReplyOf(x) == x.text.value.data.b64.pt.body.value

\* the errorcodes with a branch of their own
KnownErrorcodes == {"login failed", "exceeded max attempts", "user conflict"}

(* C11: when connect() ends on a login reply with success=false and an
   errorcode, it raises: for 'login failed' a LoginException carrying
   attemptsAllowed and failureCount + attemptsAllowed of the reply; for
   'exceeded max attempts' a LoginException with the message of its own; for
   'user conflict' a UserConflictException; for any other errorcode a
   LoginException carrying the reply itself.  The exception's class and
   message tell the four apart, and a reply with success=true makes connect()
   return, never raise. *)
C11_Classification ==
    (call.fn = "connect" /\ pc = "idle" /\ LoginReqs # <<>> /\ HasReply(Last(LoginReqs))
     /\ "success" \in DOMAIN ReplyOf(Last(LoginReqs)))
    => LET v == ReplyOf(Last(LoginReqs))
       IN  /\ v.success = TRUE => result.kind = "return"
           /\ (v.success = FALSE /\ "errorcode" \in DOMAIN v)
              => /\ result.kind = "raise"
                 /\ result.exc \in {"LoginException", "UserConflictException"}
                 /\ result.exc = "UserConflictException" <=> v.errorcode = "user conflict"
                 /\ result.arg.msg = "Login failed, wrong password."
                    <=> v.errorcode = "login failed"
                 /\ result.arg.msg = "Login failed, maximum login attempts exceeded."
                    <=> v.errorcode = "exceeded max attempts"
                 /\ result.arg.msg = "response" <=> v.errorcode \notin KnownErrorcodes
                 /\ v.errorcode = "login failed"
                    => /\ result.arg.attempts_allowed = v.data.attemptsAllowed
                       /\ result.arg.attempts_total
                            = v.data.failureCount + v.data.attemptsAllowed
                 /\ v.errorcode \notin KnownErrorcodes => result.arg.response = v

\* connect() ended on {errorcode: 'login failed', failureCount: 1, attemptsAllowed: 9}
C11_Witness ==
    /\ call.fn = "connect" /\ pc = "idle" /\ LoginReqs # <<>>
    /\ HasReply(Last(LoginReqs))
    /\ "errorcode" \in DOMAIN ReplyOf(Last(LoginReqs))
    /\ ReplyOf(Last(LoginReqs)).errorcode = "login failed"
    /\ result.kind = "raise" /\ result.exc = "LoginException"
    /\ result.arg.attempts_allowed = 9 /\ result.arg.attempts_total = 10

-----------------------------------------------------------------------------
\* the calls that hand the result of their one __request to the caller
DeviceFns ==
    {"get_client_list", "get_led_status", "set_led_status", "get_black_devices",
     "get_black_list", "block_device"}

(* C12 (as claimed): an encrypted exchange is decoded through the fallback
   exactly when its body is not JSON, and then the decrypted text is returned
   as a str, unparsed; a body that is a JSON object with a data field goes
   through the envelope only, so it gives the parsed object or, when the
   decrypted text is not JSON, the JSONDecodeError of that text; an empty
   body is an AssertionError. *)
C12_FallbackOnlyOnRawParseFailure ==
    /\ (call.fn \in DeviceFns /\ Len(posted) = 1)
       => LET text == posted[1].text
          IN  /\ text.kind = "b64"
                 => result = Ret(PyStr(text.value.b64.pt.body))
              /\ HasReply(posted[1]) => result = Ret(PyDict(ReplyOf(posted[1])))
    /\ (call.fn = "connect" /\ pc = "idle" /\ LoginReqs # <<>>)
       => LET text == Last(LoginReqs).text
          IN  /\ text.kind = "empty"
                 => result.kind = "raise" /\ result.exc = "AssertionError"
              /\ (text.kind = "json" /\ "data" \in DOMAIN text.value
                  /\ ~HasReply(Last(LoginReqs)))
                 => result.kind = "raise" /\ result.exc = "JSONDecodeError"

-----------------------------------------------------------------------------
(* C13 (as claimed): __gen_aes_key() returns, for every clock reading and every
   draw in 100000000..999999999, a key and an iv of exactly 16 characters. *)
C13_AlwaysReturns16 ==
    (key_io # NoneT /\ key_io.out # Pending)
    => /\ key_io.out.kind = "return"
       /\ Len(key_io.out.value[1]) = 16
       /\ Len(key_io.out.value[2]) = 16

(* C13 (amended): for every draw in 100000000..999999999, __gen_aes_key()
   returns a key and an iv of exactly 16 characters when the clock reading
   has 7 characters or more; when it has fewer, the reading and the draw
   make fewer than 16 characters and the call raises AssertionError: nothing
   is padded and no shorter key is returned. *)
C13_KeyShape ==
    (key_io # NoneT /\ key_io.out # Pending)
    => IF Len(key_io.ts) >= KEY_LEN - 9
       THEN /\ key_io.out.kind = "return"
            /\ Len(key_io.out.value[1]) = 16
            /\ Len(key_io.out.value[2]) = 16
       ELSE /\ Len(key_io.ts) + Len(str(key_io.r1)) < 16
            /\ key_io.out.kind = "raise"
            /\ key_io.out.exc = "AssertionError"

\* a reading of 6 characters: 15 with the draw, and the call raised
C13_Witness ==
    /\ key_io # NoneT /\ key_io.out # Pending
    /\ key_io.ts = "999999"
    /\ key_io.out.kind = "raise"

(* C14: the key is the first 16 characters of the clock reading followed by
   the first draw, the iv the first 16 characters of the same reading
   followed by the second draw: each has a draw of its own, and neither
   depends on the other's. *)
C14_TwoSeeds ==
    (key_io # NoneT /\ key_io.out # Pending /\ key_io.out.kind = "return")
    => LET seed1 == key_io.ts \o str(key_io.r1)
           seed2 == key_io.ts \o str(key_io.r2)
       IN  /\ Len(str(key_io.r1)) = 9 /\ Len(str(key_io.r2)) = 9
           /\ key_io.out.value[1] = SubSeq(seed1, 1, 16)
           /\ key_io.out.value[2] = SubSeq(seed2, 1, 16)

\* a reading of 13 digits and two draws that differ in their first 3 digits
C14_Witness ==
    /\ key_io # NoneT /\ key_io.out # Pending /\ key_io.out.kind = "return"
    /\ key_io.ts = "1762425600000"
    /\ key_io.r1 = 123456789 /\ key_io.r2 = 987654321
    /\ key_io.out.value = <<"1762425600000123", "1762425600000987">>

-----------------------------------------------------------------------------
RECURSIVE PaddedOf(_)
\* the padded text inside the blocks of a ciphertext
PaddedOf(blocks) == IF blocks = <<>> THEN <<>> ELSE Head(blocks).pt \o PaddedOf(Tail(blocks))

(* C15: for every text m and every 16-character key and iv, the request path
   encrypts m followed by 1 to 16 padding bytes, each holding their number,
   to a whole number of 16-byte blocks chained from the iv, and the response
   path, with the same key and iv, gives back exactly m. *)
C15_RoundTrip ==
    /\ (aes_io # NoneT /\ aes_io.sent # Pending)
       => /\ aes_io.sent.kind = "return"
          /\ LET blocks == aes_io.sent.value
                 padded == PaddedOf(blocks)
                 n == Len(padded) - Len(aes_io.m)
             IN  /\ n \in 1..16
                 /\ Len(padded) % 16 = 0
                 /\ Len(blocks) = (Len(aes_io.m) \div 16) + 1
                 /\ SubSeq(padded, 1, Len(aes_io.m)) = aes_io.m
                 /\ \A i \in (Len(aes_io.m) + 1)..Len(padded) : padded[i] = n
                 /\ blocks[1].prev = [iv |-> aes_io.key[2]]
                 /\ \A i \in 1..Len(blocks) : blocks[i].key = aes_io.key[1]
    /\ (aes_io # NoneT /\ aes_io.out # Pending) => aes_io.out = Ret(aes_io.m)

\* a text of exactly two blocks whose bytes look like padding came back whole
C15_Witness ==
    /\ aes_io # NoneT /\ aes_io.out # Pending
    /\ Len(aes_io.m) = 32 /\ aes_io.m[32] = 16
    /\ Len(aes_io.sent.value) = 3
    /\ aes_io.out = Ret(aes_io.m)

-----------------------------------------------------------------------------
(* C16 (as claimed): a connect() that raised after it had fetched and stored
   an auth key and sequence of its own leaves the session without a token: a
   token obtained by an earlier call is never held together with the keys of
   the failed one. *)
C16_TokenWithItsKeys ==
    (call.fn = "connect" /\ pc = "idle" /\ result.kind = "raise"
     /\ Len(posted) >= 2 /\ ValidAuthReply(posted[2])
     /\ rsa_key_auth = << posted[2].text.value.data.key[1],
                          posted[2].text.value.data.key[2],
                          posted[2].text.value.data.seq >>)
    => token = None

-----------------------------------------------------------------------------
\* a request with a signature, other than the login request
IsSignedNonLogin(x) == IsAuthenticatedReq(x) /\ ~IsLoginReq(x)

\* the text after h=<32 characters>&s= in the signing string of such a request
SValueOf(x) == SubSeq(SignedTextOf(x), 38, Len(SignedTextOf(x)))

(* C17: a step of logout() or of a device operation leaves the password key,
   the auth key with its sequence, the password hash and the session key as
   they were; so of two requests other than login, one of the previous call
   and one of this call with no connect() between them, whose data fields
   have the same length, the signing strings carry the same s. *)
C17_OnlyConnectChangesKeys ==
    [][ (pc = "unblock_remove" \/ (pc = "idle" /\ call'.fn # "connect"))
        => /\ UNCHANGED <<rsa_key_pw, rsa_key_auth, md5_hash_pw, aes_key>>
           /\ \A i \in 1..Len(posted), j \in 1..Len(posted') :
                (IsSignedNonLogin(posted[i]) /\ IsSignedNonLogin(posted'[j])
                 /\ DataLenOf(posted[i]) = DataLenOf(posted'[j]))
                => SValueOf(posted[i]) = SValueOf(posted'[j]) ]_vars

\* after a logout that gave up the token, a device operation was signed with
\* the sequence the session still stores
C17_Witness ==
    /\ pc = "idle" /\ call.fn = "get_led_status"
    /\ token = None /\ last_connect.ended = "return"
    /\ Len(posted) = 1
    /\ rsa_key_auth[3] = 999999990
    /\ SValueOf(posted[1]) = str(999999990 + DataLenOf(posted[1]))

-----------------------------------------------------------------------------
\* the positions (from 1) of the entries of a black list that have the mac
Matches(list, mac) == {i \in 1..Len(list) : list[i].mac = mac}

\* the first of them
FirstMatch(list, mac) == CHOOSE i \in Matches(list, mac) : \A j \in Matches(list, mac) : i <= j

\* the form key=<key>&index=<index>&operation=remove
RemoveText(key, index) ==
    << S("key"), S("="), S(key), S("&"), S("index"), S("="), S(index), S("&"),
       S("operation"), S("="), S("remove") >>

IsBlackListUrl(x) == x.url.endpoint = "admin/access_control" /\ x.url.form = "black_list"

(* C18: unblock_device(mac) first posts the load of the black list and nothing
   else until it is answered; when the list that came back has entries with
   the mac, one more request is posted, to the same address, with
   operation=remove, index the position (from 0) of the first such entry and
   key that entry's key, or 'anything' when it has none; when the list has no
   such entry, nothing more is posted and the call returns the text 'Device
   not found in black list'.  A remove request is posted in no other case. *)
C18_UnblockDevice ==
    call.fn = "unblock_device"
    => /\ Len(posted) \in 0..2
       /\ posted # <<>>
          => /\ IsBlackListUrl(posted[1])
             /\ FormOf(posted[1]) = << S("operation"), S("="), S("load") >>
       /\ pc = "unblock_remove" => Len(posted) = 1
       /\ Len(posted) = 2
          => /\ pc = "idle"
             /\ HasReply(posted[1])
             /\ Matches(ReplyOf(posted[1]).data, call.mac) # {}
       /\ (posted # <<>> /\ HasReply(posted[1]))
          => LET list == ReplyOf(posted[1]).data
             IN  IF Matches(list, call.mac) = {}
                 THEN /\ pc = "idle"
                      /\ Len(posted) = 1
                      /\ result = Ret("Device not found in black list")
                 ELSE LET first == FirstMatch(list, call.mac)
                          key == IF "key" \in DOMAIN list[first] THEN list[first].key
                                 ELSE "anything"
                      IN  /\ pc \in {"unblock_remove", "idle"}
                          /\ pc = "idle"
                             => /\ Len(posted) = 2
                                /\ IsBlackListUrl(posted[2])
                                /\ FormOf(posted[2]) = RemoveText(key, str(first - 1))

\* the list holds the mac twice: the remove names the first entry and its key
C18_Witness ==
    /\ call.fn = "unblock_device" /\ pc = "idle"
    /\ Len(posted) = 2
    /\ Cardinality(Matches(ReplyOf(posted[1]).data, call.mac)) = 2
    /\ FormOf(posted[2]) = RemoveText("key-0", "0")

-----------------------------------------------------------------------------
(* unblock_device against a router that holds a black list of its own, which
   its other users change at any moment: one session connects, then fetches
   the list and posts the remove. *)

\* the reply of the router to the load of its black list
black_list_text == Envelope(JsonDoc([success |-> TRUE, data |-> router.black_list]))

InitRouter ==
    /\ token = None
    /\ rsa_key_pw = NoneT
    /\ rsa_key_auth = NoneT
    /\ md5_hash_pw = None
    /\ aes_key = NoneT
    /\ pc = "idle"
    /\ call = [fn |-> "__init__"]
    /\ encrypted_pw = NoneT
    /\ unblock = NoneT
    /\ posted = <<>>
    /\ result = Ret(None)
    /\ last_connect = [password |-> None, ended |-> "never"]
    /\ sign_io = NoneT
    /\ key_io = NoneT
    /\ aes_io = NoneT
    /\ router \in {[black_list |-> l, changed_at |-> "never"] : l \in BlackLists}

\* another user of the router blocks or unblocks devices
OtherActor ==
    /\ \E l \in BlackLists \ {router.black_list} :
          router' = [black_list |-> l, changed_at |-> pc]
    /\ UNCHANGED <<token, rsa_key_pw, rsa_key_auth, md5_hash_pw, aes_key, pc, call,
                   encrypted_pw, unblock, posted, result, last_connect, sign_io, key_io,
                   aes_io>>

\* line 171 answered with the list the router holds at that moment
UnblockFetch(mac) ==
    /\ UnblockDevice(mac)
    /\ posted' # <<>>
    /\ posted'[1].text = black_list_text

NextRouter ==
    \/ Connect("password", FALSE)
    \/ ReqRsaKeyPassword(JsonDoc([success |-> TRUE, data |-> [password |-> GoodPwKey]]))
    \/ ReqRsaKeyAuth(JsonDoc([success |-> TRUE, data |-> [key |-> GoodAuthKey, seq |-> 12345]]))
    \/ GenAesKey("1762425600000", 100000000, 999999999)
    \/ EncryptPw(1)
    \/ ReqLogin(OkText("94640fd8887fb5750d6a426345581b87"))
    \/ \E mac \in Macs : UnblockFetch(mac)
    \/ \E text \in DeviceBodies(DeviceReplies) : UnblockRemove(text)
    \/ OtherActor

SpecRouter == InitRouter /\ [][NextRouter]_vars

\* the index the remove request of the call carries, as text
IndexSent == FormOf(posted[2])[7].v

(* C19: unblock_device fetches the list once; whenever the fetched list has
   the mac, the remove request is posted with the index and key computed
   from the fetched list, whatever list the router holds by then: between
   the two requests nothing is fetched again or checked. *)
C19_ReadThenAct ==
    (call.fn = "unblock_device" /\ pc = "idle" /\ posted # <<>> /\ HasReply(posted[1])
     /\ Matches(ReplyOf(posted[1]).data, call.mac) # {})
    => LET list == ReplyOf(posted[1]).data
           first == FirstMatch(list, call.mac)
           key == IF "key" \in DOMAIN list[first] THEN list[first].key ELSE "anything"
       IN  /\ Len(posted) = 2
           /\ IsBlackListUrl(posted[2])
           /\ FormOf(posted[2]) = RemoveText(key, str(first - 1))

\* the list changed between the fetch and the remove, and the index sent is the
\* position, in the list the router holds now, of an entry with another mac
C19_Witness ==
    /\ call.fn = "unblock_device" /\ pc = "idle" /\ Len(posted) = 2
    /\ router.changed_at = "unblock_remove"
    /\ router.black_list # ReplyOf(posted[1]).data
    /\ \E i \in 1..Len(router.black_list) :
          /\ str(i - 1) = IndexSent
          /\ router.black_list[i].mac # call.mac

-----------------------------------------------------------------------------
(* C20 (as claimed): for every auth key that passes the checks of the auth
   read (a modulus of 128 characters, an exponent of 6) and parses as hex,
   every chunk of the signing string is at most keyByteLength - 11 characters
   long, keyByteLength being the size in bytes of the modulus as a number,
   and the chunk loop never raises 'Plaintext is too long.' *)
C20_ChunksFitTheKey ==
    (sign_io # NoneT /\ sign_io.out # Pending /\ sign_io.key[1].hex /\ sign_io.key[2].hex)
    => /\ \A pos \in 0..(Len(sign_io.sign_data) - 1) :
            pos % 53 = 0
            => Len(Slice(sign_io.sign_data, pos, pos + 53))
                 <= ((sign_io.key[1].bits + 7) \div 8) - 11
       /\ sign_io.out.kind = "return"

=============================================================================
